---- MODULE Spec2Model ----
(***************************************************************************)
(* Retrieval pipeline of examples/simple_rag_demo.ipynb: chunk_text,       *)
(* embed_chunks, normalize, save_faiss_index, load_faiss_index,            *)
(* retrieve_chunks and query_pdf.                                          *)
(*                                                                         *)
(* Strings are sequences of one-character strings.  Vectors are pairs of   *)
(* integers; arithmetic on them is exact (float32 rounding is not          *)
(* modelled).  Python list positions are 0-based, TLA+ sequences 1-based.  *)
(***************************************************************************)
EXTENDS Integers, Sequences, FiniteSets, TLC

VARIABLES
    \* chunk_text(texts, chunk_size, overlap)
    texts, chunk_size, overlap, ti, words, i, chunks, cpc,
    \* the two persisted artifacts, db/index.faiss and db/meta.pkl, and the number of
    \* the save_faiss_index call that last wrote each of them
    index_file, meta_file, index_gen, meta_gen,
    \* prepare_pdf: embed_chunks then save_faiss_index
    spc, s_chunks, embeddings, s_index, saves, old_index_file, old_meta_file,
    \* query_pdf: load_faiss_index then retrieve_chunks
    qpc, q_index, q_chunks, q_index_gen, q_meta_gen, query_vector, top_k, labels,
    relevant_chunks, q_err,
    \* the order in which the search library reports equal scores
    tie_order

cvars == <<texts, chunk_size, overlap, ti, words, i, chunks, cpc>>

dvars == <<index_file, meta_file, index_gen, meta_gen>>

svars == <<spc, s_chunks, embeddings, s_index, saves, old_index_file, old_meta_file>>

qvars == <<qpc, q_index, q_chunks, q_index_gen, q_meta_gen, query_vector, top_k,
           labels, relevant_chunks, q_err>>

vars == <<cvars, dvars, svars, qvars, tie_order>>

----------------------------------------------------------------------------
(* Bounds *)

MaxTexts == 2
MaxWords == 6
MaxChunkSize == 4
MaxOverlap == 5

\* Chunks per ingested document, ingestions, stored vectors and requested results.
MaxBatch == 2
MaxSaves == 2
MaxCount == 3
MaxK == 5

\* Cap on the output list, reached only by a call that never leaves its loop.
MaxOut == MaxTexts * MaxWords + 1

----------------------------------------------------------------------------
(* Helpers *)

Min(a, b) == IF a < b THEN a ELSE b
Max(a, b) == IF a > b THEN a ELSE b

SeqsUpTo(S, n) == UNION {[1..m -> S] : m \in 0..n}

----------------------------------------------------------------------------
(* Python primitives used by chunk_text *)

\* str.split(): maximal runs of non-whitespace characters, in order.
RECURSIVE SplitFrom(_, _, _, _)
SplitFrom(t, k, cur, acc) ==
    IF k > Len(t)
    THEN IF cur = <<>> THEN acc ELSE Append(acc, cur)
    ELSE IF t[k] = " "
         THEN SplitFrom(t, k + 1, <<>>, IF cur = <<>> THEN acc ELSE Append(acc, cur))
         ELSE SplitFrom(t, k + 1, Append(cur, t[k]), acc)

Split(t) == SplitFrom(t, 1, <<>>, <<>>)

\* " ".join(ws)
RECURSIVE Join(_)
Join(ws) ==
    IF ws = <<>> THEN <<>>
    ELSE IF Len(ws) = 1 THEN ws[1]
    ELSE ws[1] \o <<" ">> \o Join(Tail(ws))

\* A slice bound as Python clamps it: negative bounds count from the end.
SliceBound(n, b) == IF b < 0 THEN Max(b + n, 0) ELSE Min(b, n)

\* s[lo:hi]
PySlice(s, lo, hi) ==
    SubSeq(s, SliceBound(Len(s), lo) + 1, SliceBound(Len(s), hi))

----------------------------------------------------------------------------
(* Vectors.  A raw embedding is a pair of integers.  A float of a normalized *)
(* vector is the record [num, den] standing for num / sqrt(den); den = 0 is  *)
(* NaN, the result of 0 / 0.                                                  *)

Abs(x) == IF x < 0 THEN -x ELSE x

RECURSIVE Gcd(_, _)
Gcd(a, b) == IF b = 0 THEN a ELSE Gcd(b, a % b)

NormSq(v) == v[1] * v[1] + v[2] * v[2]

NaN == [num |-> 0, den |-> 0]

\* Mutation of NormalizeRow: the row is left unscaled.
NormalizeRow_Unscaled(v) == [k \in 1..Len(v) |-> [num |-> v[k], den |-> 1]]

\* One row of vectors / norms: v[k] / sqrt(NormSq(v)) in lowest terms.
NormalizeRow(v) ==
    IF NormSq(v) = 0
    THEN [k \in 1..Len(v) |-> NaN]
    ELSE LET g == Gcd(Abs(v[1]), Abs(v[2]))
             p == [k \in 1..Len(v) |-> v[k] \div g]
         IN [k \in 1..Len(v) |->
                IF p[k] = 0 THEN [num |-> 0, den |-> 1]
                ELSE [num |-> p[k], den |-> NormSq(p)]]

\* normalize(vectors): every row divided by its own L2 norm.
normalize(vectors) == [r \in 1..Len(vectors) |-> NormalizeRow(vectors[r])]

----------------------------------------------------------------------------
(* faiss.IndexFlatIP: d, ntotal and the row-major array xb of ntotal * d floats *)

IndexFlatIP(dim) == [d |-> dim, ntotal |-> 0, xb |-> <<>>]

RECURSIVE Flatten(_)
Flatten(rows) == IF rows = <<>> THEN <<>> ELSE Head(rows) \o Flatten(Tail(rows))

\* index.add(x)
IndexAdd(index, rows) ==
    [index EXCEPT !.ntotal = @ + Len(rows), !.xb = @ \o Flatten(rows)]

\* The stored vector at 0-based position j.
StoredRow(index, j) == SubSeq(index.xb, j * index.d + 1, j * index.d + index.d)

IsNaNRow(r) == \E k \in 1..Len(r) : r[k].den = 0

Nums(r) == [k \in 1..Len(r) |-> r[k].num]

Dot(a, b) == a[1] * b[1] + a[2] * b[2]

SignedSq(x) == IF x < 0 THEN -(x * x) ELSE x * x

\* The den shared by the non-zero floats of a row (1 for a row of zeros).
RowDen(r) ==
    IF \E k \in 1..Len(r) : r[k].num # 0
    THEN r[CHOOSE k \in 1..Len(r) : r[k].num # 0].den
    ELSE 1

\* The inner product of q with stored row a is below that of q with stored row b:
\* (q.a) / sqrt(den a) < (q.b) / sqrt(den b), compared through the signed squares.
ScoreLess(q, a, b) ==
    SignedSq(Dot(Nums(q), Nums(a))) * RowDen(b)
        < SignedSq(Dot(Nums(q), Nums(b))) * RowDen(a)

\* Positions whose score is a number: a NaN score never enters the result heap.
Scored(index, q) ==
    IF IsNaNRow(q) THEN {}
    ELSE {j \in 0..(index.ntotal - 1) : ~IsNaNRow(StoredRow(index, j))}

\* j is kept in preference to l: a higher score, or the same score met earlier.
Beats(index, q, j, l) ==
    \/ ScoreLess(q, StoredRow(index, l), StoredRow(index, j))
    \/ /\ ~ScoreLess(q, StoredRow(index, j), StoredRow(index, l))
       /\ j < l

\* The positions the result heap holds after the scan: the k best.
Kept(index, q, k) ==
    {j \in Scored(index, q) :
        Cardinality({l \in Scored(index, q) : Beats(index, q, l, j)}) < k}

\* j is reported before l: descending score, equal scores in the library's order.
Before(index, q, order, j, l) ==
    \/ ScoreLess(q, StoredRow(index, l), StoredRow(index, j))
    \/ /\ ~ScoreLess(q, StoredRow(index, j), StoredRow(index, l))
       /\ IF order = "asc" THEN j < l ELSE l < j

\* The n-slot result array: the kept positions in report order, then -1.
Ranked(index, q, order, kept, n) ==
    [p \in 1..n |->
        IF p > Cardinality(kept) THEN -1
        ELSE CHOOSE j \in kept :
                Cardinality({l \in kept : Before(index, q, order, l, j)}) = p - 1]

\* index.search(q, k): the labels of the k best scores, best first, and -1 for
\* every result that is missing.
IndexSearch(index, q, k, order) ==
    CHOOSE r \in {Ranked(index, q, order, kept, k) : kept \in {Kept(index, q, k)}} : TRUE

\* faiss.write_index / faiss.read_index: the file holds the type tag and the fields.
WriteIndex(index) ==
    [fourcc |-> "IxFI", d |-> index.d, ntotal |-> index.ntotal, xb |-> index.xb]

ReadIndex(bytes) == [d |-> bytes.d, ntotal |-> bytes.ntotal, xb |-> bytes.xb]

\* pickle.dump / pickle.load of a list: a frame holding the items.
PickleDump(obj) == [proto |-> "pickle", items |-> obj]

PickleLoad(bytes) == bytes.items

\* lst[idx] for a list and a signed position; FALSE where Python raises IndexError.
InRange(lst, idx) == -Len(lst) <= idx /\ idx < Len(lst)

PyItem(lst, idx) == IF idx < 0 THEN lst[Len(lst) + idx + 1] ELSE lst[idx + 1]

----------------------------------------------------------------------------
(* Files *)

NoIndex == IndexFlatIP(0)

\* A file is missing, open for writing and still empty, or written and closed.
MissingIndex == [state |-> "missing", data |-> WriteIndex(NoIndex)]
TruncatedIndex == [state |-> "truncated", data |-> WriteIndex(NoIndex)]
MissingMeta == [state |-> "missing", data |-> PickleDump(<<>>)]
TruncatedMeta == [state |-> "truncated", data |-> PickleDump(<<>>)]
Written(bytes) == [state |-> "ok", data |-> bytes]

----------------------------------------------------------------------------
(* States in which a part of the program is not running *)

ChunkIdle ==
    /\ texts = <<>>
    /\ chunk_size = 1
    /\ overlap = 0
    /\ ti = 0
    /\ words = <<>>
    /\ i = 0
    /\ chunks = <<>>
    /\ cpc = "idle"

DiskEmpty ==
    /\ index_file = MissingIndex
    /\ meta_file = MissingMeta
    /\ index_gen = 0
    /\ meta_gen = 0

SaveIdle ==
    /\ spc = "idle"
    /\ s_chunks = <<>>
    /\ embeddings = <<>>
    /\ s_index = NoIndex
    /\ saves = 0
    /\ old_index_file = MissingIndex
    /\ old_meta_file = MissingMeta

QueryIdle ==
    /\ qpc = "idle"
    /\ q_index = NoIndex
    /\ q_chunks = <<>>
    /\ q_index_gen = 0
    /\ q_meta_gen = 0
    /\ query_vector = <<NaN, NaN>>
    /\ top_k = 0
    /\ labels = <<>>
    /\ relevant_chunks = <<>>
    /\ q_err = "none"

----------------------------------------------------------------------------
(* Inputs of chunk_text *)

Letters == <<"a", "b", "c", "d", "e", "f">>

Word(k) == <<Letters[((k - 1) % Len(Letters)) + 1]>>

\* "a b c ..." with n words
Sentence(n) == Join([k \in 1..n |-> Word(k)])

TextPool ==
    {Sentence(n) : n \in 0..MaxWords}
        \cup {<<" ">>, <<" ", "a", "b", " ", " ", "c", " ">>}

InitChunk ==
    /\ texts \in SeqsUpTo(TextPool, MaxTexts)
    /\ chunk_size \in 1..MaxChunkSize
    /\ overlap \in 0..MaxOverlap
    /\ ti = 0
    /\ words = <<>>
    /\ i = 0
    /\ chunks = <<>>
    /\ cpc = "for"
    /\ DiskEmpty
    /\ SaveIdle
    /\ QueryIdle
    /\ tie_order = "asc"

----------------------------------------------------------------------------
(* chunk_text *)

\* for text in texts: words = text.split(); i = 0
ForNext ==
    /\ cpc = "for"
    /\ ti < Len(texts)
    /\ ti' = ti + 1
    /\ words' = Split(texts[ti + 1])
    /\ i' = 0
    /\ cpc' = "while"
    /\ UNCHANGED <<dvars, svars, qvars, tie_order, texts, chunk_size, overlap, chunks>>

\* the for loop is exhausted: return chunks
ForEnd ==
    /\ cpc = "for"
    /\ ti = Len(texts)
    /\ cpc' = "done"
    /\ UNCHANGED <<dvars, svars, qvars, tie_order, texts, chunk_size, overlap, ti, words, i, chunks>>

\* Mutation of NextStart: the window start advances by a full window.
NextStart_NoOverlap(start, size, lap) == start + size

NextStart(start, size, lap) == start + size - lap

\* while i < len(words): append one window, advance i
WhileBody ==
    /\ cpc = "while"
    /\ i < Len(words)
    /\ Len(chunks) < MaxOut
    /\ chunks' = Append(chunks, Join(PySlice(words, i, i + chunk_size)))
    /\ i' = NextStart(i, chunk_size, overlap)
    /\ UNCHANGED <<dvars, svars, qvars, tie_order, texts, chunk_size, overlap, ti, words, cpc>>

WhileExit ==
    /\ cpc = "while"
    /\ i >= Len(words)
    /\ cpc' = "for"
    /\ UNCHANGED <<dvars, svars, qvars, tie_order, texts, chunk_size, overlap, ti, words, i, chunks>>

NextChunk ==
    \/ ForNext
    \/ ForEnd
    \/ WhileBody
    \/ WhileExit

SpecChunk == InitChunk /\ [][NextChunk]_vars /\ WF_vars(NextChunk)

----------------------------------------------------------------------------
(* Inputs of the ingestion and query pipelines *)

ChunkPool == {"t1", "t2"}

\* The chunk lists of length n given to the in-memory specifications: texts a and b
\* in turn, equal or different.
ChunkLists(n) == {[m \in 1..n |-> IF m % 2 = 1 THEN a ELSE b] : a, b \in ChunkPool}

\* What the embedding service may return for one item.
Vecs == {<<0, 0>>, <<1, 0>>, <<2, 0>>, <<0, 1>>, <<1, 1>>}

\* What it may return for a query.
QVecs == {<<0, 0>>, <<1, 0>>, <<0, 1>>, <<1, 1>>}

\* The smaller pools of the whole-pipeline specifications.
SvcVecs == {<<0, 0>>, <<2, 0>>}

QueryVecs == {<<1, 0>>}

\* top_k=5 in the signature of retrieve_chunks
DefaultTopK == 5

Init ==
    /\ ChunkIdle
    /\ DiskEmpty
    /\ SaveIdle
    /\ QueryIdle
    /\ tie_order \in {"asc", "desc"}

----------------------------------------------------------------------------
(* prepare_pdf: chunks -> embed_chunks -> save_faiss_index *)

\* embed_chunks: one remote call; the list holds whatever the response holds.
\* chunk_text returned some list of chunkLists, the service answers some response
\* of responses.
Embed(chunkLists, responses) ==
    /\ spc \in {"idle", "done", "failed", "crashed"}
    /\ saves < MaxSaves
    /\ \E cs \in chunkLists, response \in responses :
        /\ s_chunks' = cs
        /\ embeddings' = response
    /\ s_index' = NoIndex
    /\ saves' = saves + 1
    /\ spc' = "embedded"
    /\ UNCHANGED <<old_index_file, old_meta_file, cvars, dvars, qvars, tie_order>>

EmbedChunks == Embed(SeqsUpTo(ChunkPool, MaxBatch), SeqsUpTo(SvcVecs, MaxBatch))

\* read_pdf raises (fitz.open on a missing or broken file): prepare_pdf ends there.
ReadPdfRaises ==
    /\ spc \in {"idle", "done", "failed", "crashed"}
    /\ saves < MaxSaves
    /\ s_chunks' = <<>>
    /\ embeddings' = <<>>
    /\ s_index' = NoIndex
    /\ saves' = saves + 1
    /\ spc' = "failed"
    /\ UNCHANGED <<old_index_file, old_meta_file, cvars, dvars, qvars, tie_order>>

\* client.embeddings.create raises (the remote call fails): prepare_pdf ends there,
\* holding the chunks and no embeddings.
EmbedChunksRaises(chunkLists) ==
    /\ spc \in {"idle", "done", "failed", "crashed"}
    /\ saves < MaxSaves
    /\ \E cs \in chunkLists : s_chunks' = cs
    /\ embeddings' = <<>>
    /\ s_index' = NoIndex
    /\ saves' = saves + 1
    /\ spc' = "failed"
    /\ UNCHANGED <<old_index_file, old_meta_file, cvars, dvars, qvars, tie_order>>

\* np.linalg.norm(vectors, axis=1) raises on rows of unequal lengths.
Ragged(embs) == \E n \in 1..Len(embs) : Len(embs[n]) # Len(embs[1])

\* dim = len(embeddings[0]); index = IndexFlatIP(dim); index.add(normalize(embeddings))
BuiltIndex(embs) == IndexAdd(IndexFlatIP(Len(embs[1])), normalize(embs))

\* Mutation of BuildIndex: index_path is opened for writing before anything else.
BuildIndex_OpensFirst ==
    /\ spc = "embedded"
    /\ index_file' = TruncatedIndex
    /\ IF embeddings = <<>> \/ Ragged(embeddings)
       THEN /\ spc' = "failed"
            /\ UNCHANGED <<s_index, old_index_file, old_meta_file>>
       ELSE /\ s_index' = BuiltIndex(embeddings)
            /\ old_index_file' = index_file
            /\ old_meta_file' = meta_file
            /\ spc' = "built"
    /\ UNCHANGED <<meta_file, index_gen, meta_gen, s_chunks, embeddings, saves, cvars,
                   qvars, tie_order>>

\* save_faiss_index up to its first write; embeddings[0] of an empty list raises,
\* and so does normalize on rows of unequal lengths.
BuildIndex ==
    /\ spc = "embedded"
    /\ IF embeddings = <<>> \/ Ragged(embeddings)
       THEN /\ spc' = "failed"
            /\ UNCHANGED <<s_index, old_index_file, old_meta_file>>
       ELSE /\ s_index' = BuiltIndex(embeddings)
            /\ old_index_file' = index_file
            /\ old_meta_file' = meta_file
            /\ spc' = "built"
    /\ UNCHANGED <<s_chunks, embeddings, saves, cvars, dvars, qvars, tie_order>>

\* faiss.write_index opens index_path for writing, which empties it
WriteIndexOpen ==
    /\ spc = "built"
    /\ index_file' = TruncatedIndex
    /\ index_gen' = saves
    /\ spc' = "index_open"
    /\ UNCHANGED <<meta_file, meta_gen, s_chunks, embeddings, s_index, saves,
                   old_index_file, old_meta_file, cvars, qvars, tie_order>>

\* faiss.write_index writes the index and closes the file
WriteIndexClose ==
    /\ spc = "index_open"
    /\ index_file' = Written(WriteIndex(s_index))
    /\ spc' = "index_written"
    /\ UNCHANGED <<meta_file, index_gen, meta_gen, s_chunks, embeddings, s_index, saves,
                   old_index_file, old_meta_file, cvars, qvars, tie_order>>

\* open(meta_path, "wb") empties the file
OpenMeta ==
    /\ spc = "index_written"
    /\ meta_file' = TruncatedMeta
    /\ meta_gen' = saves
    /\ spc' = "meta_open"
    /\ UNCHANGED <<index_file, index_gen, s_chunks, embeddings, s_index, saves,
                   old_index_file, old_meta_file, cvars, qvars, tie_order>>

\* Mutation of DumpMeta: the list is dumped without its last chunk.
DumpMeta_DropLast ==
    /\ spc = "meta_open"
    /\ meta_file' = Written(PickleDump(SubSeq(s_chunks, 1, Len(s_chunks) - 1)))
    /\ s_index' = NoIndex
    /\ old_index_file' = MissingIndex
    /\ old_meta_file' = MissingMeta
    /\ spc' = "done"
    /\ UNCHANGED <<index_file, index_gen, meta_gen, s_chunks, embeddings, saves,
                   cvars, qvars, tie_order>>

\* pickle.dump(chunks, f), the end of the with block, and the return: the locals of
\* save_faiss_index are gone, its caller still holds embeddings and chunks
DumpMeta ==
    /\ spc = "meta_open"
    /\ meta_file' = Written(PickleDump(s_chunks))
    /\ s_index' = NoIndex
    /\ old_index_file' = MissingIndex
    /\ old_meta_file' = MissingMeta
    /\ spc' = "done"
    /\ UNCHANGED <<index_file, index_gen, meta_gen, s_chunks, embeddings, saves,
                   cvars, qvars, tie_order>>

\* The process is killed inside save_faiss_index: only the files survive.
Crash ==
    /\ spc \in {"built", "index_open", "index_written", "meta_open"}
    /\ s_chunks' = <<>>
    /\ embeddings' = <<>>
    /\ s_index' = NoIndex
    /\ old_index_file' = MissingIndex
    /\ old_meta_file' = MissingMeta
    /\ spc' = "crashed"
    /\ UNCHANGED <<saves, cvars, dvars, qvars, tie_order>>

----------------------------------------------------------------------------
(* query_pdf: load_faiss_index -> retrieve_chunks *)

\* index = faiss.read_index(index_path); raises unless the file is complete
ReadIndexFile ==
    /\ qpc \in {"idle", "retrieved", "failed"}
    /\ IF index_file.state = "ok"
       THEN /\ q_index' = ReadIndex(index_file.data)
            /\ q_index_gen' = index_gen
            /\ q_err' = "none"
            /\ qpc' = "index_read"
       ELSE /\ q_index' = NoIndex
            /\ q_index_gen' = 0
            /\ q_err' = "RuntimeError"
            /\ qpc' = "failed"
    /\ q_chunks' = <<>>
    /\ q_meta_gen' = 0
    /\ query_vector' = <<NaN, NaN>>
    /\ top_k' = 0
    /\ labels' = <<>>
    /\ relevant_chunks' = <<>>
    /\ UNCHANGED <<cvars, dvars, svars, tie_order>>

\* with open(meta_path, "rb") as f: chunks = pickle.load(f); return index, chunks
ReadMetaFile ==
    /\ qpc = "index_read"
    /\ IF meta_file.state = "ok"
       THEN /\ q_chunks' = PickleLoad(meta_file.data)
            /\ q_meta_gen' = meta_gen
            /\ qpc' = "loaded"
            /\ UNCHANGED <<q_index, q_index_gen, q_err>>
       ELSE /\ q_err' = IF meta_file.state = "missing"
                        THEN "FileNotFoundError" ELSE "EOFError"
            /\ q_index' = NoIndex
            /\ q_index_gen' = 0
            /\ qpc' = "failed"
            /\ UNCHANGED <<q_chunks, q_meta_gen>>
    /\ UNCHANGED <<query_vector, top_k, labels, relevant_chunks, cvars, dvars, svars,
                   tie_order>>

\* retrieve_chunks: embed and normalize the query, search, map each label to its chunk.
\* The remote call returns some vector of queries; the caller passes some top_k of ks.
Retrieve(queries, ks) ==
    /\ qpc = "loaded"
    /\ \E qv \in queries, k \in ks :
        \E indices \in {IndexSearch(q_index, NormalizeRow(qv), k, tie_order)} :
           /\ query_vector' = NormalizeRow(qv)
           /\ top_k' = k
           /\ labels' = indices
           /\ IF \A p \in 1..k : InRange(q_chunks, indices[p])
              THEN /\ relevant_chunks' = [p \in 1..k |-> PyItem(q_chunks, indices[p])]
                   /\ q_err' = "none"
                   /\ qpc' = "retrieved"
              ELSE /\ relevant_chunks' = <<>>
                   /\ q_err' = "IndexError"
                   /\ qpc' = "failed"
    /\ UNCHANGED <<q_index, q_chunks, q_index_gen, q_meta_gen, cvars, dvars, svars,
                   tie_order>>

\* retrieve_chunks(query, index, chunks, model_name, top_k)
RetrieveChunks == Retrieve(QVecs, 1..MaxK)

\* query_pdf calls retrieve_chunks without top_k, which is then 5
QueryRetrieve == Retrieve(QueryVecs, {DefaultTopK})

Next ==
    \/ EmbedChunks
    \/ BuildIndex
    \/ WriteIndexOpen
    \/ WriteIndexClose
    \/ OpenMeta
    \/ DumpMeta
    \/ Crash
    \/ ReadIndexFile
    \/ ReadMetaFile
    \/ QueryRetrieve

Spec == Init /\ [][Next]_vars

\* The same program when no process is killed.
NextNoCrash ==
    \/ EmbedChunks
    \/ BuildIndex
    \/ WriteIndexOpen
    \/ WriteIndexClose
    \/ OpenMeta
    \/ DumpMeta
    \/ ReadIndexFile
    \/ ReadMetaFile
    \/ QueryRetrieve

SpecNoCrash == Init /\ [][NextNoCrash]_vars

----------------------------------------------------------------------------
(* retrieve_chunks on an index held in memory *)

InitRetrieve ==
    /\ ChunkIdle
    /\ DiskEmpty
    /\ \E embs \in SeqsUpTo(Vecs, MaxCount) :
        \E cs \in ChunkLists(Len(embs)) :
            /\ embeddings = embs
            /\ s_chunks = cs
            /\ s_index = IF embs = <<>> THEN IndexFlatIP(2) ELSE BuiltIndex(embs)
    /\ spc = "built"
    /\ saves = 0
    /\ old_index_file = MissingIndex
    /\ old_meta_file = MissingMeta
    /\ q_index = s_index
    /\ q_chunks = s_chunks
    /\ qpc = "loaded"
    /\ q_index_gen = 0
    /\ q_meta_gen = 0
    /\ query_vector = <<NaN, NaN>>
    /\ top_k = 0
    /\ labels = <<>>
    /\ relevant_chunks = <<>>
    /\ q_err = "none"
    /\ tie_order \in {"asc", "desc"}

NextRetrieve == RetrieveChunks

SpecRetrieve == InitRetrieve /\ [][NextRetrieve]_vars

----------------------------------------------------------------------------
(* save_faiss_index(embeddings, chunks), then load_faiss_index and retrieve_chunks, *)
(* run one after the other by a caller that holds embeddings and chunks            *)

InitRoundTrip ==
    /\ ChunkIdle
    /\ DiskEmpty
    /\ \E embs \in SeqsUpTo(Vecs, MaxBatch) :
        \E cs \in ChunkLists(Len(embs)) :
            /\ embeddings = embs
            /\ s_chunks = cs
    /\ s_index = NoIndex
    /\ spc = "embedded"
    /\ saves = 1
    /\ old_index_file = MissingIndex
    /\ old_meta_file = MissingMeta
    /\ QueryIdle
    /\ tie_order \in {"asc", "desc"}

LoadIndexAfterSave == spc = "done" /\ ReadIndexFile

LoadMetaAfterSave == spc = "done" /\ ReadMetaFile

RetrieveAfterLoad == spc = "done" /\ RetrieveChunks

NextRoundTrip ==
    \/ BuildIndex
    \/ WriteIndexOpen
    \/ WriteIndexClose
    \/ OpenMeta
    \/ DumpMeta
    \/ LoadIndexAfterSave
    \/ LoadMetaAfterSave
    \/ RetrieveAfterLoad

SpecRoundTrip == InitRoundTrip /\ [][NextRoundTrip]_vars

----------------------------------------------------------------------------
(* prepare_pdf calls that succeed or fail, one after the other, and query_pdf *)
(* after a call that failed                                                   *)

\* What the service may return for one item: a vector, or one of another length.
PrepVecs == {<<2, 0>>, <<1>>}

\* The responses whose first vector has the two components the index works on.
PrepResponses == {r \in SeqsUpTo(PrepVecs, MaxBatch) : r = <<>> \/ Len(r[1]) = 2}

PrepChunkLists == SeqsUpTo({"t1"}, MaxBatch)

\* No query_pdf call is between its load and its return.
QueryOver == qpc \in {"idle", "retrieved", "failed"}

PrepareReadFails == QueryOver /\ ReadPdfRaises

PrepareEmbedFails == QueryOver /\ EmbedChunksRaises(PrepChunkLists)

PrepareEmbed == QueryOver /\ Embed(PrepChunkLists, PrepResponses)

LoadIndexAfterFailure == spc = "failed" /\ ReadIndexFile

LoadMetaAfterFailure == spc = "failed" /\ ReadMetaFile

RetrieveAfterFailure == spc = "failed" /\ QueryRetrieve

NextPrepare ==
    \/ PrepareReadFails
    \/ PrepareEmbedFails
    \/ PrepareEmbed
    \/ BuildIndex
    \/ WriteIndexOpen
    \/ WriteIndexClose
    \/ OpenMeta
    \/ DumpMeta
    \/ LoadIndexAfterFailure
    \/ LoadMetaAfterFailure
    \/ RetrieveAfterFailure

SpecPrepare == Init /\ [][NextPrepare]_vars

----------------------------------------------------------------------------
(* Claims about chunk_text *)

ValidCfg == chunk_size > 0 /\ 0 <= overlap /\ overlap < chunk_size

\* The windows of one word list, by the closed form: starts 0, stride, 2*stride, ...
WindowsOf(ws, size, lap) ==
    LET stride == size - lap
        n == Len(ws)
        count == (n + stride - 1) \div stride
    IN [j \in 1..count |->
            Join(SubSeq(ws, (j - 1) * stride + 1, Min((j - 1) * stride + size, n)))]

RECURSIVE WindowsOfAll(_, _, _)
WindowsOfAll(ts, size, lap) ==
    IF ts = <<>> THEN <<>>
    ELSE WindowsOf(Split(Head(ts)), size, lap) \o WindowsOfAll(Tail(ts), size, lap)

ExampleChunks ==
    << <<"a", " ", "b", " ", "c", " ", "d">>,
       <<"c", " ", "d", " ", "e", " ", "f">>,
       <<"e", " ", "f">> >>

\* C4: chunk_text called with overlap >= chunk_size is rejected with ConfigError:
\* it produces no chunk (and so cannot stay in its loop).
C4_BadConfigYieldsNoChunk == overlap >= chunk_size => chunks = <<>>

\* C5: with chunk_size > 0 and 0 <= overlap < chunk_size, chunk_text terminates and
\* returns, text by text in source order, exactly the windows
\* words[s : min(s + chunk_size, n)] for s = 0, stride, 2*stride, ... < n;
\* "a b c d e f" with chunk_size 4 and overlap 2 gives "a b c d", "c d e f", "e f".
C5_ChunkWindows ==
    /\ [](ValidCfg /\ cpc = "done" =>
            /\ chunks = WindowsOfAll(texts, chunk_size, overlap)
            /\ (texts = <<Sentence(6)>> /\ chunk_size = 4 /\ overlap = 2
                    => chunks = ExampleChunks))
    /\ (ValidCfg => <>(cpc = "done"))

\* Two non-empty texts chunked with a positive overlap, the second ending in a short window.
C5_Witness ==
    /\ cpc = "done"
    /\ ValidCfg
    /\ overlap > 0
    /\ Len(texts) = 2
    /\ Len(Split(texts[1])) > chunk_size
    /\ Len(Split(texts[2])) > chunk_size
    /\ Len(chunks) > 4

----------------------------------------------------------------------------
(* Claims about the persisted index *)

StoredCount == ReadIndex(index_file.data).ntotal

StoredChunks == PickleLoad(meta_file.data)

\* C1: after an ingestion (embed_chunks, then save_faiss_index) the stored vector
\* collection and the stored chunk-text collection have the same length, whatever
\* the embedding service returned.
C1_StoredLengthsAgree ==
    /\ spc = "done"
    /\ s_chunks # <<>>
    /\ \A n \in 1..Len(embeddings) : NormSq(embeddings[n]) # 0
    => StoredCount = Len(StoredChunks)

\* The pair of artifacts the running save_faiss_index call is writing.
NewPair == <<Written(WriteIndex(s_index)), Written(PickleDump(s_chunks))>>

\* C2: when save_faiss_index is interrupted, the pair of artifacts on disk is
\* entirely the pair from before the call or entirely the pair of this call.
C2_CrashAtomic ==
    [][spc' = "crashed" =>
        <<index_file', meta_file'>> \in {<<old_index_file, old_meta_file>>, NewPair}]_vars

\* C6: load_faiss_index never returns an index and a chunk list of unequal lengths.
C6_LoadedLengthsAgree == qpc = "loaded" => q_index.ntotal = Len(q_chunks)

\* The query holds the pair load_faiss_index returned.
QueryHoldsPair == qpc \in {"loaded", "retrieved"} \/ q_err = "IndexError"

\* C7: when a query runs while save_faiss_index writes the same location, the
\* vectors and the chunk texts the query uses were written by the same save.
C7_QueryUsesOneSave == QueryHoldsPair => q_index_gen = q_meta_gen

----------------------------------------------------------------------------
(* Claims about retrieve_chunks *)

Returned == qpc \in {"retrieved", "failed"}

Zero(v) == NormSq(v) = 0

\* No NaN takes part: every embedded vector and the query vector are non-zero.
NoNaN ==
    /\ \A n \in 1..Len(embeddings) : ~Zero(embeddings[n])
    /\ ~IsNaNRow(query_vector)

\* C3: on an index of count >= 1 vectors, retrieval with k >= 1 returns exactly
\* min(k, count) chunks, each the text of a distinct stored position.
C3_ReturnsMinKCount ==
    Returned /\ NoNaN /\ q_index.ntotal >= 1 =>
        /\ qpc = "retrieved"
        /\ Len(relevant_chunks) = Min(top_k, q_index.ntotal)
        /\ \A p \in 1..Len(labels) : labels[p] \in 0..(q_index.ntotal - 1)
        /\ \A p, r \in 1..Len(labels) : p # r => labels[p] # labels[r]

\* C8: retrieval on an index of zero vectors fails with EmptyIndexError.
C8_EmptyIndexError ==
    Returned /\ q_index.ntotal = 0 => qpc = "failed" /\ q_err = "EmptyIndexError"

\* b is a positive multiple of a.
SameDirection(a, b) == a[1] * b[2] = a[2] * b[1] /\ Dot(a, b) > 0

\* The query is normalize(v_n), asked for one result.
AsksForStored(n) ==
    /\ qpc \in {"retrieved", "failed"}
    /\ top_k = 1
    /\ \A m \in 1..Len(embeddings) : ~Zero(embeddings[m])
    /\ query_vector = NormalizeRow(embeddings[n])

\* Chunk n is returned, and no other stored chunk scores as high.
ReturnsAsUniqueTop(n) ==
    /\ qpc = "retrieved"
    /\ labels = <<n - 1>>
    /\ relevant_chunks = <<s_chunks[n]>>
    /\ \A m \in 1..Len(embeddings) :
        m # n => ScoreLess(query_vector, StoredRow(q_index, m - 1),
                           StoredRow(q_index, n - 1))

\* C9 as stated: for an index built from non-zero vectors v1..vn, the query
\* normalize(v_n) with k = 1 returns chunk n as the unique top score, also when
\* stored vectors are equal or positive multiples of one another.
C9_SelfQueryUniqueTop ==
    \A n \in 1..Len(embeddings) : AsksForStored(n) => ReturnsAsUniqueTop(n)

\* C9 as amended: the same, for stored vectors no two of which are equal or
\* positive multiples of one another.
C9_SelfQueryUniqueTopDistinct ==
    (\A m, n \in 1..Len(embeddings) :
        m # n => ~SameDirection(embeddings[m], embeddings[n]))
    => \A n \in 1..Len(embeddings) : AsksForStored(n) => ReturnsAsUniqueTop(n)

\* Three stored directions; the query for the last one returns the last chunk.
C9_Witness ==
    /\ Len(embeddings) = 3
    /\ \A m, n \in 1..3 : m # n => ~SameDirection(embeddings[m], embeddings[n])
    /\ AsksForStored(3)
    /\ labels = <<2>>

----------------------------------------------------------------------------
(* Claims about the round trip *)

\* What retrieve_chunks returns on the index built in memory from the caller's
\* embeddings and chunks, for the query and top_k of the last call.
MemoryLabels == IndexSearch(BuiltIndex(embeddings), query_vector, top_k, tie_order)

MemoryChunks == [p \in 1..top_k |-> PyItem(s_chunks, MemoryLabels[p])]

RoundTrip ==
    /\ qpc \in {"loaded", "retrieved"} =>
        /\ q_index = BuiltIndex(embeddings)
        /\ q_chunks = s_chunks
    /\ qpc = "retrieved" =>
        /\ \A p \in 1..top_k : InRange(s_chunks, MemoryLabels[p])
        /\ relevant_chunks = MemoryChunks
    /\ qpc = "failed" =>
        /\ q_err = "IndexError"
        /\ \E p \in 1..top_k : ~InRange(s_chunks, MemoryLabels[p])

----------------------------------------------------------------------------
(* Claims about embed_chunks and normalize *)

\* C11: embed_chunks returns exactly one vector per input text: the list it hands to
\* prepare_pdf is as long as the list of chunks it was given.
C11_OneVectorPerText == spc = "embedded" => Len(embeddings) = Len(s_chunks)

HasNaNRow(index) == \E j \in 0..(index.ntotal - 1) : IsNaNRow(StoredRow(index, j))

\* C12: no vector with undefined components is added to the in-memory index,
\* written to the index file or passed to search.
C12_NoUndefinedVector ==
    /\ ~HasNaNRow(s_index)
    /\ index_file.state = "ok" => ~HasNaNRow(ReadIndex(index_file.data))
    /\ Returned /\ top_k > 0 => ~IsNaNRow(query_vector)

----------------------------------------------------------------------------
(* Claims about the order of the results *)

\* The score of the result at p is below the score of the result at r.
ResultLess(p, r) ==
    ScoreLess(query_vector, StoredRow(q_index, labels[p]), StoredRow(q_index, labels[r]))

\* C13: the results of a search are in descending order of score, and two results
\* of equal score are in order of stored position, the lower position first.
C13_DescendingThenPosition ==
    Returned /\ NoNaN =>
        \A p, r \in 1..Len(labels) :
            p < r /\ labels[p] >= 0 /\ labels[r] >= 0 =>
                /\ ~ResultLess(p, r)
                /\ ~ResultLess(r, p) => labels[p] < labels[r]

----------------------------------------------------------------------------
(* Claims about a prepare_pdf call that fails *)

\* C14: a prepare_pdf call that fails before the first artifact write (in read_pdf,
\* in the remote embed call, at embeddings[0] of an empty list, in normalize) takes
\* no step that changes either artifact, and the query_pdf that follows loads the
\* pair that is on disk, which is the pair from before the call.
C14_FailedPrepareKeepsArtifacts ==
    /\ [][spc' \in {"embedded", "failed"} => UNCHANGED <<index_file, meta_file>>]_vars
    /\ [](qpc = "loaded" =>
            /\ spc = "failed"
            /\ index_file.state = "ok" /\ meta_file.state = "ok"
            /\ q_index = ReadIndex(index_file.data)
            /\ q_chunks = PickleLoad(meta_file.data)
            /\ q_index_gen = index_gen /\ q_meta_gen = meta_gen
            /\ index_gen = meta_gen /\ index_gen < saves)

\* The first call saved two chunks, the second call failed in normalize, and the
\* query after it answered from the two chunks of the first call.
C14_Witness ==
    /\ spc = "failed"
    /\ saves = 2
    /\ Ragged(embeddings)
    /\ index_gen = 1 /\ meta_gen = 1
    /\ StoredChunks = <<"t1", "t1">>
    /\ qpc = "retrieved"
    /\ q_index_gen = 1 /\ q_meta_gen = 1
    /\ relevant_chunks = [p \in 1..DefaultTopK |-> "t1"]

====
